---- MODULE Spec2Model ----
(***************************************************************************)
(* A model of configable's two binding cores:                              *)
(*   impl = "dict"  src/configable/__init__.py   (two-phase, dict based)   *)
(*   impl = "desc"  src/python/configable/__init__.py (descriptor based)   *)
(* One bind request (a class applied to a raw value) is executed as an     *)
(* explicit call stack over a heap of bound objects; every invocation of a *)
(* user callback is logged together with the heap it can observe.          *)
(***************************************************************************)
EXTENDS Integers, Sequences, FiniteSets, TLC

VARIABLES impl, decl, order, rootcls, input, config, again, stack, heap,
          log, result

vars ==
    <<impl, decl, order, rootcls, input, config, again, stack, heap, log, result>>

(***************************************************************************)
(* Python values.  A value is a record: t is the Python type, and one more  *)
(* field, named after the type, holds the content.                         *)
(***************************************************************************)
None == [t |-> "none"]
NoAttr == [t |-> "noattr"]
PyStr(s) == [t |-> "str", s |-> s]
PySStr(s) == [t |-> "sstr", s |-> s]
PyInt(n) == [t |-> "int", n |-> n]
PyBool(b) == [t |-> "bool", b |-> b]
PyMap(f) == [t |-> "map", m |-> f]
PyList(q) == [t |-> "list", l |-> q]
PyRef(i) == [t |-> "ref", r |-> i]
PyFunc(f) == [t |-> "func", f |-> f]

EmptyMap == PyMap(<<>>)

\* dict.get(name): None when the key is absent
Get(m, k) == IF k \in DOMAIN m THEN m[k] ELSE None

\* d[k] = x on a dict
Put(m, k, x) == [y \in DOMAIN m \cup {k} |-> IF y = k THEN x ELSE m[y]]

\* dict.update(other)
Update(m, o) == [y \in DOMAIN m \cup DOMAIN o |-> IF y \in DOMAIN o THEN o[y] ELSE m[y]]

\* Python's == on the values the model uses: str subclasses compare as
\* strings, bool is an int, containers compare by content
Num(a) == IF a.t = "bool" THEN (IF a.b THEN 1 ELSE 0) ELSE a.n

PyEq(a, b) ==
    \/ a.t \in {"str", "sstr"} /\ b.t \in {"str", "sstr"} /\ a.s = b.s
    \/ a.t \in {"int", "bool"} /\ b.t \in {"int", "bool"} /\ Num(a) = Num(b)
    \/ a.t = b.t /\ a.t \notin {"str", "sstr", "int", "bool"} /\ a = b

\* value in choices (a list)
PyIn(x, l) == \E j \in 1..Len(l.l) : PyEq(l.l[j], x)

Truthy(x) ==
    CASE x.t = "none" -> FALSE
      [] x.t = "bool" -> x.b
      [] x.t = "int" -> x.n # 0
      [] x.t \in {"str", "sstr"} -> x.s # ""
      [] x.t = "map" -> DOMAIN x.m # {}
      [] x.t = "list" -> Len(x.l) > 0
      [] OTHER -> TRUE

\* str(x) for the scalars of the model
Digits == [s \in {"0", "1", "2", "7"} |->
             CASE s = "0" -> 0 [] s = "1" -> 1 [] s = "2" -> 2 [] OTHER -> 7]

ToStr(x) ==
    CASE x.t \in {"str", "sstr"} -> x.s
      [] x.t = "int" -> (CHOOSE s \in DOMAIN Digits : Digits[s] = x.n)
      [] x.t = "bool" -> (IF x.b THEN "True" ELSE "False")
      [] x.t = "none" -> "None"
      [] OTHER -> "<object>"

\* kind(value) for the casters that are no Configable class: the cast value,
\* or an error record; "split" is a caster of strings, lambda s: s.split(','),
\* which like any str method is not defined on its own result
CastErr(exc) == [t |-> "raise", exc |-> exc]

Cast(kind, x) ==
    CASE kind = "bool" -> PyBool(Truthy(x))
      [] kind = "SpecialString" -> PySStr(ToStr(x))
      [] kind = "int" ->
           (CASE x.t = "int" -> x
              [] x.t = "bool" -> PyInt(Num(x))
              [] x.t \in {"str", "sstr"} ->
                   (IF x.s \in DOMAIN Digits THEN PyInt(Digits[x.s])
                    ELSE CastErr("ValueError"))
              [] OTHER -> CastErr("TypeError"))
      [] kind = "split" ->
           (IF x.t \in {"str", "sstr"} THEN PyList(<<PyStr(x.s)>>)
            ELSE CastErr("AttributeError"))
      [] OTHER -> x

(***************************************************************************)
(* Declarations.  A setting is the record of the arguments of setting(...) *)
(* plus whether it decorates a callback; a class is its base, its own      *)
(* SUBTYPE_PROPERTY / SUBTYPE / TYPE attributes (NoAttr when the class     *)
(* body does not assign them) and the settings its body declares, in       *)
(* declaration order.                                                      *)
(***************************************************************************)
Setting(name, required, kind, default, choices, init) ==
    [name |-> name, required |-> required, kind |-> kind,
     default |-> default, choices |-> choices, init |-> init]

Plain(name) == Setting(name, FALSE, "", None, None, TRUE)

Class(base, subprop, subtype, type, settings) ==
    [base |-> base, subprop |-> subprop, subtype |-> subtype,
     type |-> type, settings |-> settings]

\* The library's own classes
Builtins == {"Configable", "ConfigableMap", "ConfigableArray"}

\* dict-style declarations, after src/tests/test_configable.py; C.a is the
\* setting under test, its arguments drawn per run (decl)
DictClasses(d) ==
    [Animal |-> Class("Configable", PyStr("species"), NoAttr, NoAttr,
                      <<Plain("name")>>),
     Cat    |-> Class("Animal", NoAttr, NoAttr, NoAttr,
                      <<Setting("toys", FALSE, "split", PyStr("ball"), None, TRUE)>>),
     Dog    |-> Class("Animal", PyStr("breed"), PyStr("dog"), NoAttr,
                      <<Setting("size", TRUE, "", None, None, TRUE)>>),
     Husky  |-> Class("Dog", NoAttr, PyStr("husky"), NoAttr, <<>>),
     Poodle |-> Class("Dog", NoAttr, NoAttr, NoAttr, <<>>),
     Person |-> Class("Configable", NoAttr, NoAttr, NoAttr,
                      <<Setting("name", TRUE, "", None, None, TRUE),
                        Setting("age", FALSE, "int", PyStr("7"), None, TRUE)>>),
     Family |-> Class("Configable", NoAttr, NoAttr, NoAttr,
                      <<Setting("motto", FALSE, "", PyStr("boosh"), None, TRUE),
                        Setting("dad", FALSE, "Person", None, None, TRUE),
                        Setting("mom", FALSE, "Person", None, None, TRUE)>>),
     Clan   |-> Class("Configable", NoAttr, NoAttr, NoAttr,
                      <<Setting("chief", FALSE, "Family", None, None, TRUE)>>),
     Kennel |-> Class("Configable", NoAttr, NoAttr, NoAttr,
                      <<Setting("dogs", FALSE, "DogMap", None, None, TRUE)>>),
     DogMap |-> Class("ConfigableMap", NoAttr, NoAttr, PyStr("Dog"), <<>>),
     Dogs   |-> Class("ConfigableArray", NoAttr, NoAttr, PyStr("Dog"), <<>>),
     C      |-> Class("Configable", NoAttr, NoAttr, NoAttr, <<d, Plain("b")>>)]

\* class statements in the order they are executed (cls.__subclasses__()
\* lists direct subclasses in that order)
DictClassOrder ==
    <<"Animal", "Cat", "Dog", "Husky", "Poodle", "Person", "Family", "Clan",
      "DogMap", "Dogs", "Kennel", "C">>

\* descriptor-style declarations, after src/python/tests/test_configable.py;
\* C declares b before a, the setting under test
DescClasses(d) ==
    [Animal  |-> Class("Configable", NoAttr, NoAttr, NoAttr, <<Plain("name")>>),
     Cat     |-> Class("Animal", NoAttr,
                       PyMap([k \in {"species"} |-> PyStr("cat")]), NoAttr, <<>>),
     Dog     |-> Class("Animal", NoAttr,
                       PyMap([k \in {"species"} |-> PyStr("dog")]), NoAttr,
                       <<Setting("size", FALSE, "", None, None, TRUE)>>),
     Husky   |-> Class("Dog", NoAttr,
                       PyMap([k \in {"breed"} |-> PyStr("husky")]), NoAttr, <<>>),
     Puppy   |-> Class("Dog", NoAttr, NoAttr, NoAttr, <<>>),
     Pet     |-> Class("Animal", NoAttr,
                       PyMap([k \in {"species"} |-> PyStr("dog")]), NoAttr, <<>>),
     Stray   |-> Class("Animal", NoAttr,
                       PyMap([k \in {"owner"} |-> None]), NoAttr, <<>>),
     String  |-> Class("Configable", NoAttr, NoAttr, NoAttr, <<>>),
     SString |-> Class("String", NoAttr, PyFunc("startsWithS"), NoAttr, <<>>),
     Person  |-> Class("Configable", NoAttr, NoAttr, NoAttr,
                       <<Setting("name", TRUE, "", None, None, FALSE)>>),
     Family  |-> Class("Configable", NoAttr, NoAttr, NoAttr,
                       <<Setting("dad", FALSE, "Person", None, None, TRUE),
                         Setting("mom", FALSE, "Person", None, None, TRUE)>>),
     C       |-> Class("Configable", NoAttr, NoAttr, NoAttr, <<Plain("b"), d>>)]

DescClassOrder ==
    <<"Animal", "Cat", "Dog", "Husky", "Puppy", "Pet", "Stray", "String",
      "SString", "Person", "Family", "C">>

Classes == IF impl = "dict" THEN DictClasses(decl) ELSE DescClasses(decl)

ClassOrder == IF impl = "dict" THEN DictClassOrder ELSE DescClassOrder

\* subcls.__name__.lower()
Lower(name) ==
    CASE name = "Animal" -> "animal" [] name = "Cat" -> "cat"
      [] name = "Dog" -> "dog" [] name = "Husky" -> "husky"
      [] name = "Poodle" -> "poodle" [] name = "Person" -> "person"
      [] name = "Family" -> "family" [] name = "Clan" -> "clan"
      [] name = "Kennel" -> "kennel" [] name = "DogMap" -> "dogmap"
      [] name = "Dogs" -> "dogs" [] OTHER -> "c"

\* the method resolution order of a class: itself, then its bases
RECURSIVE Mro(_)
Mro(cls) == IF cls \in Builtins THEN <<>> ELSE <<cls>> \o Mro(Classes[cls].base)

Range(q) == {q[j] : j \in 1..Len(q)}

\* the library class a class derives from
RECURSIVE LibraryBase(_)
LibraryBase(cls) == IF cls \in Builtins THEN cls ELSE LibraryBase(Classes[cls].base)

\* issubclass(cls, base)
IsSubclass(cls, base) == base \in Range(Mro(cls)) \cup {LibraryBase(cls)}

\* inspect.isclass(kind) and issubclass(kind, ConfigableBase)
IsConfigableKind(kind) == kind \in DOMAIN Classes

\* getattr(cls, attr, default): the first class of the MRO whose body
\* assigns the attribute decides
RECURSIVE GetAttr(_, _, _)
GetAttr(cls, attr, default) ==
    IF cls \in Builtins THEN default
    ELSE IF Classes[cls][attr] # NoAttr THEN Classes[cls][attr]
    ELSE GetAttr(Classes[cls].base, attr, default)

\* cls.__subclasses__(): direct subclasses, in definition order
Subclasses(cls) ==
    SelectSeq(ClassOrder, LAMBDA c : Classes[c].base = cls)

\* the settings visible on a class (inherited ones included)
SettingNames(cls) ==
    UNION {{st.name : st \in Range(Classes[c].settings)} : c \in Range(Mro(cls))}

RECURSIVE Lookup(_, _)
Lookup(cls, name) ==
    LET own == SelectSeq(Classes[cls].settings, LAMBDA s : s.name = name)
    IN IF Len(own) > 0 THEN own[1] ELSE Lookup(Classes[cls].base, name)

\* inspect.getmembers returns the members sorted by name
NameOrder ==
    <<"a", "age", "b", "chief", "dad", "dogs", "mom", "motto", "name", "size",
      "toys">>

Members(cls) == SelectSeq(NameOrder, LAMBDA n : n \in SettingNames(cls))

(***************************************************************************)
(* Machine state.                                                          *)
(*   heap   : the objects created so far; an object is its class, its      *)
(*            items (dict/list content or, descriptor style, the '_name'   *)
(*            attributes), _parent and _handlers                           *)
(*   stack  : the active calls; a frame is a class call (op "call": __new__ *)
(*            then __init__), a collection construction (op "coll") or a   *)
(*            _handle_settings call (op "handle"); path is where the cfg   *)
(*            of the frame sits inside the caller's raw value              *)
(*   log    : the user callbacks invoked so far, each with the heap at the *)
(*            moment of the call                                           *)
(*   result : what the root call returned or raised                        *)
(*   config : the raw value the caller passed, as the caller sees it now    *)
(*            (input is what it was when the call was made)                *)
(*   again  : the calls of _handle_settings the caller has made on the     *)
(*            object the root call returned: each with the length of the   *)
(*            log when it was made and how it ended                        *)
(***************************************************************************)
Object(cls) ==
    [cls |-> cls, items |-> <<>>, parent |-> None, handlers |-> <<>>]

Frame(op, cls, cfg, root, obj, pc) ==
    [op |-> op, cls |-> cls, cfg |-> cfg, root |-> root, obj |-> obj,
     pc |-> pc, i |-> 1, path |-> <<>>]

Running == [status |-> "running", value |-> None, exc |-> "", why |-> "", name |-> ""]

Returned(x) == [status |-> "ok", value |-> x, exc |-> "", why |-> "", name |-> ""]

Raised(exc, why, name) ==
    [status |-> "error", value |-> None, exc |-> exc, why |-> why, name |-> name]

Top == stack[Len(stack)]

Caller == stack[Len(stack) - 1]

Pop == SubSeq(stack, 1, Len(stack) - 1)

SetTop(f) == [stack EXCEPT ![Len(stack)] = f]

\* an exception propagates to the caller of the root call: nothing in the
\* library catches
Raise(exc, why, name) ==
    /\ stack' = <<>>
    /\ result' = Raised(exc, why, name)
    /\ UNCHANGED <<heap, log>>

\* the call of a user callback
Called(obj, name, value, h) ==
    Append(log, [obj |-> obj, name |-> name, value |-> value, heap |-> h])

\* the frame that constructs kind(value, _is_root)
CallFrame(kind, value, root) ==
    Frame(IF LibraryBase(kind) = "Configable" THEN "call" ELSE "coll",
          kind, value, root, 0, "new")

\* the mapping a dict is initialised or looked up from; NoAttr when the
\* value is no mapping
AsDict(x) ==
    CASE x.t = "map" -> x
      [] x.t = "ref" -> PyMap(heap[x.r].items)
      [] OTHER -> NoAttr

\* an empty iterable initialises an empty dict or list
EmptyIterable(x) == x \in {PyList(<<>>), PyStr("")}

(***************************************************************************)
(* Dict style: Configable.__new__                                          *)
(***************************************************************************)
\* `subtype_property in config`: "yes", "no", or "TypeError" when config
\* supports no membership test
Contains(cfg, key) ==
    CASE AsDict(cfg) # NoAttr -> IF key.s \in DOMAIN AsDict(cfg).m THEN "yes" ELSE "no"
      [] cfg.t = "list" -> IF \E j \in 1..Len(cfg.l) : PyEq(cfg.l[j], key)
                           THEN "yes" ELSE "no"
      [] cfg.t \in {"str", "sstr"} -> IF cfg.s = key.s THEN "yes" ELSE "no"
      [] OTHER -> "TypeError"

\* getattr(subcls, 'SUBTYPE', subcls.__name__.lower())
DictSubtype(subcls) == GetAttr(subcls, "subtype", PyStr(Lower(subcls)))

\* the subclasses of cls the loop of __new__ would return, in loop order
DictMatches(cls, cfg) ==
    LET prop == GetAttr(cls, "subprop", None)
    IN IF prop = None \/ Contains(cfg, prop) # "yes" THEN <<>>
       ELSE SelectSeq(Subclasses(cls),
                      LAMBDA c : PyEq(DictSubtype(c), AsDict(cfg).m[prop.s]))

\* the _is_root that __new__ hands on in subcls(config, _is_root=_is_root)
SubclassIsRoot(root) == root

DictNew ==
    /\ impl = "dict"
    /\ stack # <<>>
    /\ Top.op = "call" /\ Top.pc = "new"
    /\ LET cls == Top.cls
           cfg == Top.cfg
           prop == GetAttr(cls, "subprop", None)
       IN IF prop # None /\ Contains(cfg, prop) = "TypeError"
          THEN Raise("TypeError", "not iterable", "")
          ELSE IF prop # None /\ Contains(cfg, prop) = "yes" /\ AsDict(cfg) = NoAttr
          THEN Raise("TypeError", "bad index", "")
          ELSE IF Len(DictMatches(cls, cfg)) > 0
          THEN /\ stack' = Append(SetTop([Top EXCEPT !.pc = "subnew"]),
                                  [CallFrame(DictMatches(cls, cfg)[1], cfg,
                                             SubclassIsRoot(Top.root))
                                      EXCEPT !.path = Top.path])
               /\ UNCHANGED <<heap, log, result>>
          ELSE /\ heap' = Append(heap, Object(cls))
               /\ stack' = SetTop([Top EXCEPT !.obj = Len(heap) + 1, !.pc = "init"])
               /\ UNCHANGED <<log, result>>
    /\ UNCHANGED <<impl, decl, order, rootcls, input, config, again>>

\* cls(...) whose __new__ returned subcls(...): the instance is an instance
\* of cls, so the call of cls runs __init__ on it as well
SubclassReturned ==
    /\ Len(stack) >= 2
    /\ Top.pc = "ret" /\ Caller.pc = "subnew"
    /\ stack' = [Pop EXCEPT ![Len(stack) - 1] =
                    [Caller EXCEPT !.obj = Top.obj, !.pc = "init"]]
    /\ UNCHANGED <<impl, decl, order, rootcls, input, config, again, heap, log, result>>

(***************************************************************************)
(* Dict style: Configable.__init__ and _prepare_settings                   *)
(***************************************************************************)
DictInit ==
    /\ impl = "dict"
    /\ stack # <<>>
    /\ Top.op = "call" /\ Top.pc = "init"
    /\ IF AsDict(Top.cfg) = NoAttr /\ ~EmptyIterable(Top.cfg)
       THEN Raise(IF Top.cfg.t \in {"str", "sstr", "list"} THEN "ValueError"
                  ELSE "TypeError", "not a mapping", "")
       ELSE /\ heap' = [heap EXCEPT ![Top.obj] =
                          [@ EXCEPT !.items = IF AsDict(Top.cfg) = NoAttr THEN @
                                              ELSE Update(@, AsDict(Top.cfg).m),
                                    !.parent = None,
                                    !.handlers = <<>>]]
            /\ stack' = SetTop([Top EXCEPT !.pc = "prep", !.i = 1])
            /\ UNCHANGED <<log, result>>
    /\ UNCHANGED <<impl, decl, order, rootcls, input, config, again>>

\* the methods of self that carry __prepare_setting__, as getmembers lists them
Handlers(obj) == Members(heap[obj].cls)

\* (mutant) the loop of _prepare_settings stops after the first method
PrepareDoneEarly(i, n) == i > 1

\* the for loop of _prepare_settings has visited every method
PrepareDone(i, n) == i > n

\* (mutant) the default is consulted before the required check
MissingRequiredUnlessDefault(st, value) ==
    value = None /\ st.required /\ st.default = None

\* setting.prepare: `if value is None: if self.required: raise`
MissingRequired(st, value) == value = None /\ st.required

\* setting.prepare: `elif self.default is not None: value = self.default`
Defaulted(st, value) ==
    IF value = None /\ st.default # None THEN st.default ELSE value

\* x with x[path...][k] = v, when the path leads to a dict or a list
RECURSIVE WriteAt(_, _, _, _)
WriteAt(x, path, k, v) ==
    IF path = <<>>
    THEN CASE x.t = "map" -> PyMap(Put(x.m, k, v))
           [] x.t = "list" -> PyList([x.l EXCEPT ![k] = v])
           [] OTHER -> x
    ELSE CASE x.t = "map" /\ Head(path) \in DOMAIN x.m ->
                PyMap([x.m EXCEPT ![Head(path)] = WriteAt(@, Tail(path), k, v)])
           [] x.t = "list" /\ Head(path) \in DOMAIN x.l ->
                PyList([x.l EXCEPT ![Head(path)] = WriteAt(@, Tail(path), k, v)])
           [] OTHER -> x

\* (mutant) the bound object is the config object itself
SelfIsConfigAlways == TRUE

\* self is a new object (dict.__new__, list.__new__) that dict.__init__ or
\* list.__init__ fills with the entries of config; it is never config itself
SelfIsConfig == FALSE

\* the caller's raw value after self[k] = v in the object bound from the
\* value at path
Written(path, k, v) == IF SelfIsConfig THEN WriteAt(config, path, k, v) ELSE config

\* self[name] = value; self._handlers.append((func, value))
Store(h, obj, name, value) ==
    [h EXCEPT ![obj] = [@ EXCEPT !.items = Put(@, name, value),
                                 !.handlers = Append(@, <<name, value>>)]]

\* (mutant) prepare builds the nested Configable as a root
NestedIsRootAlways == TRUE

\* the _is_root that prepare passes to kind(value, ...)
NestedIsRoot == FALSE

DictPrepare ==
    /\ impl = "dict"
    /\ stack # <<>>
    /\ Top.op = "call" /\ Top.pc = "prep"
    /\ ~PrepareDone(Top.i, Len(Handlers(Top.obj)))
    /\ LET name == Handlers(Top.obj)[Top.i]
           st == Lookup(heap[Top.obj].cls, name)
           raw == Get(heap[Top.obj].items, name)
           value == Defaulted(st, raw)
           cast == IF value # None /\ st.kind # "" THEN Cast(st.kind, value) ELSE value
       IN IF MissingRequired(st, raw)
          THEN Raise("ValueError", "required", name) /\ UNCHANGED config
          ELSE IF value # None /\ st.kind # "" /\ IsConfigableKind(st.kind)
          THEN /\ stack' = Append(SetTop([Top EXCEPT !.pc = "cast"]),
                                  [CallFrame(st.kind, value, NestedIsRoot)
                                      EXCEPT !.path = Append(Top.path, name)])
               /\ UNCHANGED <<heap, log, result, config>>
          ELSE IF cast.t = "raise"
          THEN Raise(cast.exc, "cast", name) /\ UNCHANGED config
          ELSE /\ heap' = Store(heap, Top.obj, name, cast)
               /\ config' = Written(Top.path, name, cast)
               /\ stack' = SetTop([Top EXCEPT !.i = @ + 1])
               /\ UNCHANGED <<log, result>>
    /\ UNCHANGED <<impl, decl, order, rootcls, input, again>>

\* kind(value, _is_root=False) returned: prepare returns it and
\* _prepare_settings stores it
DictStoreNested ==
    /\ impl = "dict"
    /\ Len(stack) >= 2
    /\ Top.pc = "ret" /\ Caller.pc = "cast"
    /\ heap' = Store(heap, Caller.obj, Handlers(Caller.obj)[Caller.i], PyRef(Top.obj))
    /\ config' = Written(Caller.path, Handlers(Caller.obj)[Caller.i], PyRef(Top.obj))
    /\ stack' = [Pop EXCEPT ![Len(stack) - 1] =
                    [Caller EXCEPT !.pc = "prep", !.i = @ + 1]]
    /\ UNCHANGED <<impl, decl, order, rootcls, input, again, log, result>>

\* __init__ after _prepare_settings: `if _is_root: self._handle_settings()`
DictPrepared ==
    /\ impl = "dict"
    /\ stack # <<>>
    /\ Top.op = "call" /\ Top.pc = "prep"
    /\ PrepareDone(Top.i, Len(Handlers(Top.obj)))
    /\ stack' = SetTop([Top EXCEPT !.pc = IF Top.root THEN "handle" ELSE "ret",
                                   !.i = 1])
    /\ UNCHANGED <<impl, decl, order, rootcls, input, config, again, heap, log, result>>

(***************************************************************************)
(* Dict style: _handle_settings and the wrapper of setting.__call__        *)
(***************************************************************************)
\* (mutant) every setting gets the bare handler
WrappedNever(st) == FALSE

\* setting.__call__: a setting whose kind is a ConfigableBase class gets the
\* wrapper, any other setting the bare handler
Wrapped(st) == IsConfigableKind(st.kind)

\* hasattr(value, '_handle_settings'): only Configable defines it
HasHandleSettings(h, value) ==
    value.t = "ref" /\ LibraryBase(h[value.r].cls) = "Configable"

\* one iteration of `for handler, value in self._handlers: handler(value)`
\* for the frame on top, whether __init__ or a wrapper called the method
DictHandle ==
    /\ impl = "dict"
    /\ stack # <<>>
    /\ Top.pc = "handle"
    /\ Top.i <= Len(heap[Top.obj].handlers)
    /\ LET name == heap[Top.obj].handlers[Top.i][1]
           value == heap[Top.obj].handlers[Top.i][2]
           st == Lookup(heap[Top.obj].cls, name)
           adopted == [heap EXCEPT ![value.r] = [@ EXCEPT !.parent = PyRef(Top.obj)]]
       IN IF ~Wrapped(st)
          THEN /\ log' = Called(Top.obj, name, value, heap)
               /\ stack' = SetTop([Top EXCEPT !.i = @ + 1])
               /\ UNCHANGED <<heap, result>>
          ELSE IF value.t # "ref"
          THEN Raise("AttributeError", "_parent", name)
          ELSE IF ~HasHandleSettings(heap, value)
          THEN /\ stack' = <<>>
               /\ heap' = adopted
               /\ result' = Raised("AttributeError", "_handle_settings", name)
               /\ UNCHANGED log
          ELSE /\ heap' = adopted
               /\ stack' = Append(SetTop([Top EXCEPT !.pc = "nested"]),
                                  Frame("handle", heap[value.r].cls, value, FALSE,
                                        value.r, "handle"))
               /\ UNCHANGED <<log, result>>
    /\ UNCHANGED <<impl, decl, order, rootcls, input, config, again>>

\* wrapper, after value._handle_settings() returned: handler(configable, value)
DictWrapperHandler ==
    /\ impl = "dict"
    /\ Len(stack) >= 2
    /\ Top.op = "handle" /\ Top.pc = "handle"
    /\ Top.i > Len(heap[Top.obj].handlers)
    /\ Caller.pc = "nested"
    /\ log' = Called(Caller.obj, heap[Caller.obj].handlers[Caller.i][1],
                     heap[Caller.obj].handlers[Caller.i][2], heap)
    /\ stack' = [Pop EXCEPT ![Len(stack) - 1] =
                    [Caller EXCEPT !.pc = "handle", !.i = @ + 1]]
    /\ UNCHANGED <<impl, decl, order, rootcls, input, config, again, heap, result>>

\* __init__ returns once its _handle_settings call is over
DictHandled ==
    /\ impl = "dict"
    /\ stack # <<>>
    /\ Top.op = "call" /\ Top.pc = "handle"
    /\ Top.i > Len(heap[Top.obj].handlers)
    /\ stack' = SetTop([Top EXCEPT !.pc = "ret"])
    /\ UNCHANGED <<impl, decl, order, rootcls, input, config, again, heap, log, result>>

(***************************************************************************)
(* Dict style: ConfigableMap / ConfigableArray                             *)
(***************************************************************************)
\* self.iterator(): iteritems() walks the keys in the dict's own order,
\* enumerate() the indices in sequence
Iterator(h, obj) ==
    IF LibraryBase(h[obj].cls) = "ConfigableMap"
    THEN SelectSeq(order, LAMBDA k : k \in DOMAIN h[obj].items)
    ELSE [j \in 1..Len(h[obj].items) |-> j]

\* (mutant) the collection builds each element as a root
ElementIsRootAlways == TRUE

\* the _is_root the collection passes to TYPE(value, ...)
ElementIsRoot == FALSE

\* dict.__init__(config) / list.__init__(config), then the checks that open
\* _init_configables
CollInit ==
    /\ impl = "dict"
    /\ stack # <<>>
    /\ Top.op = "coll" /\ Top.pc = "new"
    /\ LET ismap == LibraryBase(Top.cls) = "ConfigableMap"
           fits == IF ismap THEN AsDict(Top.cfg) # NoAttr ELSE Top.cfg.t = "list"
       IN IF ~fits /\ ~EmptyIterable(Top.cfg)
          THEN Raise("TypeError", "not a collection", "")
          ELSE IF GetAttr(Top.cls, "type", NoAttr) = NoAttr
          THEN Raise("ValueError", "no TYPE", "")
          ELSE /\ heap' = Append(heap,
                     [Object(Top.cls) EXCEPT !.items =
                         IF ~fits THEN <<>>
                         ELSE IF ismap THEN AsDict(Top.cfg).m ELSE Top.cfg.l])
               /\ stack' = SetTop([Top EXCEPT !.obj = Len(heap) + 1,
                                              !.pc = "elems", !.i = 1])
               /\ UNCHANGED <<log, result>>
    /\ UNCHANGED <<impl, decl, order, rootcls, input, config, again>>

\* first loop: self[name] = self.TYPE(value, _is_root=False), the call
CollPrepareElem ==
    /\ impl = "dict"
    /\ stack # <<>>
    /\ Top.op = "coll" /\ Top.pc = "elems"
    /\ Top.i <= Len(Iterator(heap, Top.obj))
    /\ stack' = Append(SetTop([Top EXCEPT !.pc = "elem"]),
                       [CallFrame(GetAttr(Top.cls, "type", NoAttr).s,
                                  heap[Top.obj].items[Iterator(heap, Top.obj)[Top.i]],
                                  ElementIsRoot)
                           EXCEPT !.path = Append(Top.path,
                                                  Iterator(heap, Top.obj)[Top.i])])
    /\ UNCHANGED <<impl, decl, order, rootcls, input, config, again, heap, log, result>>

\* first loop: the assignment of the returned element
CollStoreElem ==
    /\ Len(stack) >= 2
    /\ Top.pc = "ret" /\ Caller.pc = "elem"
    /\ heap' = [heap EXCEPT ![Caller.obj] =
                  [@ EXCEPT !.items[Iterator(heap, Caller.obj)[Caller.i]] =
                                PyRef(Top.obj)]]
    /\ config' = Written(Caller.path, Iterator(heap, Caller.obj)[Caller.i],
                         PyRef(Top.obj))
    /\ stack' = [Pop EXCEPT ![Len(stack) - 1] =
                    [Caller EXCEPT !.pc = "elems", !.i = @ + 1]]
    /\ UNCHANGED <<impl, decl, order, rootcls, input, again, log, result>>

\* `if _is_root:` between the loops
CollPrepared ==
    /\ impl = "dict"
    /\ stack # <<>>
    /\ Top.op = "coll" /\ Top.pc = "elems"
    /\ Top.i > Len(Iterator(heap, Top.obj))
    /\ stack' = SetTop([Top EXCEPT !.pc = IF Top.root THEN "commit" ELSE "ret",
                                   !.i = 1])
    /\ UNCHANGED <<impl, decl, order, rootcls, input, config, again, heap, log, result>>

\* second loop: value._handle_settings(), the call
CollHandleElem ==
    /\ impl = "dict"
    /\ stack # <<>>
    /\ Top.op = "coll" /\ Top.pc = "commit"
    /\ Top.i <= Len(Iterator(heap, Top.obj))
    /\ LET value == heap[Top.obj].items[Iterator(heap, Top.obj)[Top.i]]
       IN stack' = Append(SetTop([Top EXCEPT !.pc = "committing"]),
                          Frame("handle", heap[value.r].cls, value, FALSE,
                                value.r, "handle"))
    /\ UNCHANGED <<impl, decl, order, rootcls, input, config, again, heap, log, result>>

\* second loop: the element's _handle_settings returned
CollElemHandled ==
    /\ impl = "dict"
    /\ Len(stack) >= 2
    /\ Top.op = "handle" /\ Top.pc = "handle"
    /\ Top.i > Len(heap[Top.obj].handlers)
    /\ Caller.pc = "committing"
    /\ stack' = [Pop EXCEPT ![Len(stack) - 1] =
                    [Caller EXCEPT !.pc = "commit", !.i = @ + 1]]
    /\ UNCHANGED <<impl, decl, order, rootcls, input, config, again, heap, log, result>>

\* the collection's __init__ returns
CollHandled ==
    /\ impl = "dict"
    /\ stack # <<>>
    /\ Top.op = "coll" /\ Top.pc = "commit"
    /\ Top.i > Len(Iterator(heap, Top.obj))
    /\ stack' = SetTop([Top EXCEPT !.pc = "ret"])
    /\ UNCHANGED <<impl, decl, order, rootcls, input, config, again, heap, log, result>>

\* the root call returns the object to its caller
Finish ==
    /\ Len(stack) = 1
    /\ Top.pc = "ret"
    /\ stack' = <<>>
    /\ result' = Returned(PyRef(Top.obj))
    /\ UNCHANGED <<impl, decl, order, rootcls, input, config, again, heap, log>>

\* the caller invokes _handle_settings() on the Configable a root call
\* returned; the method has no guard and walks self._handlers again
MaxCommits == 1

HandleAgain ==
    /\ impl = "dict"
    /\ stack = <<>>
    /\ result.status = "ok"
    /\ LibraryBase(heap[result.value.r].cls) = "Configable"
    /\ Len(again) < MaxCommits
    /\ again' = Append(again, [at |-> Len(log), status |-> "running", exc |-> ""])
    /\ stack' = <<Frame("handle", heap[result.value.r].cls, result.value, FALSE,
                        result.value.r, "handle")>>
    /\ UNCHANGED <<impl, decl, order, rootcls, input, config, heap, log, result>>

\* that call returns (None) to the caller
HandledAgain ==
    /\ impl = "dict"
    /\ Len(stack) = 1
    /\ Top.op = "handle" /\ Top.pc = "handle"
    /\ Top.i > Len(heap[Top.obj].handlers)
    /\ stack' = <<>>
    /\ again' = [again EXCEPT ![Len(again)] = [@ EXCEPT !.status = "ok"]]
    /\ UNCHANGED <<impl, decl, order, rootcls, input, config, heap, log, result>>

(***************************************************************************)
(* Descriptor style: Configable.__new__, __init__ and setting.__set__      *)
(***************************************************************************)
\* the test of one subclass in the loop of __new__: SUBTYPE (inherited
\* through getattr) is a dict and no pair differs from config.get(name)
DescMatch(subcls, cfg) ==
    LET subtype == GetAttr(subcls, "subtype", None)
    IN /\ subtype.t = "map"
       /\ \A name \in DOMAIN subtype.m : PyEq(subtype.m[name], Get(cfg.m, name))

DescMatches(cls, cfg) == SelectSeq(Subclasses(cls), LAMBDA c : DescMatch(c, cfg))

DescNew ==
    /\ impl = "desc"
    /\ stack # <<>>
    /\ Top.op = "call" /\ Top.pc = "new"
    /\ IF Top.cfg.t # "map"
       THEN Raise("ValueError", "not a dict", "")
       ELSE IF Len(DescMatches(Top.cls, Top.cfg)) > 0
       THEN /\ stack' = Append(SetTop([Top EXCEPT !.pc = "subnew"]),
                               CallFrame(DescMatches(Top.cls, Top.cfg)[1],
                                         Top.cfg, Top.root))
            /\ UNCHANGED <<heap, log, result>>
       ELSE /\ heap' = Append(heap, Object(Top.cls))
            /\ stack' = SetTop([Top EXCEPT !.obj = Len(heap) + 1, !.pc = "init"])
            /\ UNCHANGED <<log, result>>
    /\ UNCHANGED <<impl, decl, order, rootcls, input, config, again>>

\* __init__: self._settings = inspect.getmembers(self.__class__, issetting)
DescInit ==
    /\ impl = "desc"
    /\ stack # <<>>
    /\ Top.op = "call" /\ Top.pc = "init"
    /\ stack' = SetTop([Top EXCEPT !.pc = "set", !.i = 1])
    /\ UNCHANGED <<impl, decl, order, rootcls, input, config, again, heap, log, result>>

\* setting.__set__: `if value is None and self.required: raise`
DescMissingRequired(st, value) == value = None /\ st.required

\* setting.__set__: `if value not in self.choices: raise`
BadChoice(st, value) == st.choices # None /\ ~PyIn(value, st.choices)

\* setting.__set__: setattr(obj, '_' + self.name, value), then self.init
SetAttr(h, obj, name, value) ==
    [h EXCEPT ![obj] = [@ EXCEPT !.items = Put(@, name, value)]]

\* setting.__set__ ends with `if self.init is not None: self.init(obj, value)`
Initialised(st, obj, value, h) ==
    IF st.init THEN Called(obj, st.name, value, h) ELSE log

\* setting.__get__ on an instance
DescGet(h, obj, name) ==
    LET value == Get(h[obj].items, name)
    IN IF value = None THEN Lookup(h[obj].cls, name).default ELSE value

\* one iteration of the loop of __init__: setattr(self, name, config.get(name))
DescSet ==
    /\ impl = "desc"
    /\ stack # <<>>
    /\ Top.op = "call" /\ Top.pc = "set"
    /\ Top.i <= Len(Handlers(Top.obj))
    /\ LET name == Handlers(Top.obj)[Top.i]
           st == Lookup(heap[Top.obj].cls, name)
           value == Get(Top.cfg.m, name)
           cast == IF value # None /\ st.kind # "" THEN Cast(st.kind, value) ELSE value
       IN IF DescMissingRequired(st, value)
          THEN Raise("ValueError", "required", name)
          ELSE IF BadChoice(st, value)
          THEN Raise("ValueError", "choices", name)
          ELSE IF value # None /\ IsConfigableKind(st.kind)
          THEN /\ stack' = Append(SetTop([Top EXCEPT !.pc = "cast"]),
                                  CallFrame(st.kind, value, TRUE))
               /\ UNCHANGED <<heap, log, result>>
          ELSE IF cast.t = "raise"
          THEN Raise(cast.exc, "cast", name)
          ELSE /\ heap' = SetAttr(heap, Top.obj, name, cast)
               /\ log' = Initialised(st, Top.obj, cast, heap')
               /\ stack' = SetTop([Top EXCEPT !.i = @ + 1])
               /\ UNCHANGED result
    /\ UNCHANGED <<impl, decl, order, rootcls, input, config, again>>

\* setting.__set__ after self.kind(value) returned a Configable
DescStoreNested ==
    /\ impl = "desc"
    /\ Len(stack) >= 2
    /\ Top.pc = "ret" /\ Caller.pc = "cast"
    /\ LET name == Handlers(Caller.obj)[Caller.i]
       IN /\ heap' = SetAttr(heap, Caller.obj, name, PyRef(Top.obj))
          /\ log' = Initialised(Lookup(heap[Caller.obj].cls, name), Caller.obj,
                                PyRef(Top.obj), heap')
    /\ stack' = [Pop EXCEPT ![Len(stack) - 1] =
                    [Caller EXCEPT !.pc = "set", !.i = @ + 1]]
    /\ UNCHANGED <<impl, decl, order, rootcls, input, config, again, result>>

\* __init__ returns
DescDone ==
    /\ impl = "desc"
    /\ stack # <<>>
    /\ Top.op = "call" /\ Top.pc = "set"
    /\ Top.i > Len(Handlers(Top.obj))
    /\ stack' = SetTop([Top EXCEPT !.pc = "ret"])
    /\ UNCHANGED <<impl, decl, order, rootcls, input, config, again, heap, log, result>>

(***************************************************************************)
(* Bind requests                                                           *)
(***************************************************************************)
MaxElems == 2

\* a dict literal from optional fields: NoAttr marks a key that is left out
Dict(f) == PyMap([k \in {x \in DOMAIN f : f[x] # NoAttr} |-> f[k]])

\* every dict with, for each key, one of the given values or no such key
Dicts(opts) ==
    {Dict(f) : f \in {g \in [DOMAIN opts -> UNION {opts[k] : k \in DOMAIN opts}] :
                        \A k \in DOMAIN opts : g[k] \in opts[k]}}

\* every list of at most n elements of a set
Lists(S, n) == {PyList(q) : q \in UNION {[1..m -> S] : m \in 0..n}}

ElemKeys == SubSeq(<<"gracie", "sparky", "shadow", "rex">>, 1, MaxElems)

Perms(q) ==
    {p \in [1..Len(q) -> Range(q)] : \A x, y \in 1..Len(q) : p[x] = p[y] => x = y}

PersonInputs ==
    Dicts([name |-> {NoAttr, PyStr("Hal")},
           age |-> {NoAttr, PyStr("1"), PyStr("x")}])

FamilyInputs ==
    Dicts([motto |-> {NoAttr, PyStr("hi")},
           dad |-> {NoAttr} \cup PersonInputs,
           mom |-> {NoAttr, Dict([name |-> PyStr("Lois")]), EmptyMap}])

ClanInputs ==
    Dicts([chief |-> {NoAttr} \cup
                     {f \in FamilyInputs : "motto" \notin DOMAIN f.m}])

DictAnimalInputs ==
    Dicts([species |-> {NoAttr, PyStr("cat"), PyStr("dog")},
           breed |-> {NoAttr, PyStr("husky"), PyStr("poodle"), PyStr("dog")},
           size |-> {NoAttr, PyStr("large")},
           name |-> {NoAttr, PyStr("rex")},
           toys |-> {NoAttr, PyStr("ball")}])

DogInputs ==
    Dicts([breed |-> {NoAttr, PyStr("husky"), PyStr("poodle")},
           size |-> {NoAttr, PyStr("medium")}])

DogMapInputs ==
    Dicts([k \in Range(ElemKeys) |-> {NoAttr} \cup DogInputs])

KennelInputs ==
    Dicts([dogs |-> {NoAttr, EmptyMap,
                     Dict([gracie |-> Dict([size |-> PyStr("medium")])])}])

\* the declarations of the setting under test
DictDecls ==
    {Setting("a", r, k, d, None, TRUE) :
        r \in BOOLEAN, k \in {"", "int", "bool"}, d \in {None, PyStr("1")}}

DescDecls ==
    {Setting("a", r, k, d, c, TRUE) :
        r \in BOOLEAN, k \in {"", "int", "SpecialString"},
        d \in {None, PyStr("boosh")},
        c \in {None, PyList(<<PyStr("hi")>>), PyList(<<PyInt(1)>>)}}

CInputs ==
    Dicts([a |-> {NoAttr, None, PyStr("1"), PyStr("hi"), PyStr("hello")},
           b |-> {NoAttr, PyStr("2")}])

DescAnimalInputs ==
    Dicts([species |-> {NoAttr, PyStr("cat"), PyStr("dog")},
           breed |-> {NoAttr, PyStr("husky")},
           owner |-> {NoAttr, PyStr("bob")},
           size |-> {NoAttr, PyStr("large")}])

DescFamilyInputs ==
    Dicts([dad |-> {NoAttr, Dict([name |-> PyStr("Hal")]), EmptyMap},
           mom |-> {NoAttr, Dict([name |-> PyStr("Lois")])}])

\* raw values that are no mapping
NonMappings ==
    {None, PyInt(1), PyStr(""), PyStr("x"), PyList(<<>>), PyList(<<PyStr("x")>>)}

\* the root classes a run may bind, each with its inputs
DictRequests ==
    ({"Person"} \X PersonInputs) \cup ({"Family"} \X FamilyInputs)
    \cup ({"Clan"} \X ClanInputs) \cup ({"Animal", "Dog"} \X DictAnimalInputs)
    \cup ({"DogMap"} \X DogMapInputs) \cup ({"Dogs"} \X Lists(DogInputs, MaxElems))
    \cup ({"Kennel"} \X KennelInputs) \cup ({"C"} \X CInputs)
    \cup ({"Animal", "C"} \X NonMappings)

DescRequests ==
    ({"Animal", "Dog"} \X DescAnimalInputs)
    \cup ({"String"} \X {PyStr("S string!"), PyStr("string"), EmptyMap})
    \cup ({"Family"} \X DescFamilyInputs) \cup ({"C"} \X CInputs)

Init ==
    /\ impl \in {"dict", "desc"}
    /\ \E req \in (IF impl = "dict" THEN DictRequests ELSE DescRequests) :
          /\ rootcls = req[1]
          /\ input = req[2]
    /\ decl \in (IF impl = "dict" THEN DictDecls ELSE DescDecls)
    /\ rootcls # "C" => decl = Setting("a", FALSE, "", None, None, TRUE)
    /\ order \in Perms(ElemKeys)
    /\ rootcls # "DogMap" => order = ElemKeys
    /\ stack = <<CallFrame(rootcls, input, TRUE)>>
    /\ heap = <<>>
    /\ log = <<>>
    /\ result = Running
    /\ again = <<>>
    /\ config = input

Next ==
    \/ DictNew
    \/ SubclassReturned
    \/ DictInit
    \/ DictPrepare
    \/ DictStoreNested
    \/ DictPrepared
    \/ DictHandle
    \/ DictWrapperHandler
    \/ DictHandled
    \/ CollInit
    \/ CollPrepareElem
    \/ CollStoreElem
    \/ CollPrepared
    \/ CollHandleElem
    \/ CollElemHandled
    \/ CollHandled
    \/ HandleAgain
    \/ HandledAgain
    \/ DescNew
    \/ DescInit
    \/ DescSet
    \/ DescStoreNested
    \/ DescDone
    \/ Finish

Spec == Init /\ [][Next]_vars

(***************************************************************************)
(* Properties                                                              *)
(***************************************************************************)
Done == stack = <<>>

\* the names _prepare_settings has stored so far on an object
PreparedNames(h, obj) == {h[obj].handlers[j][1] : j \in 1..Len(h[obj].handlers)}

\* a stored value in prepared form: validated, defaulted and cast
PreparedForm(h, st, x) ==
    /\ st.required => x # None
    /\ st.default # None => x # None
    /\ (x # None /\ st.kind = "int") => x.t = "int"
    /\ (x # None /\ st.kind = "bool") => x.t = "bool"
    /\ (x # None /\ IsConfigableKind(st.kind)) =>
          x.t = "ref" /\ IsSubclass(h[x.r].cls, st.kind)

\* every setting of an object has been prepared and stored under its key
FullyPrepared(h, obj) ==
    \A b \in SettingNames(h[obj].cls) :
        /\ b \in PreparedNames(h, obj)
        /\ b \in DOMAIN h[obj].items
        /\ PreparedForm(h, Lookup(h[obj].cls, b), h[obj].items[b])

\* C1: dict style, root bind of a Configable: whenever the callback of a
\* setting a runs, every setting b of the same object (declared before or
\* after a) has been validated, defaulted, cast and stored under its key.
C1_SiblingsPreparedBeforeCallback ==
    (impl = "dict" /\ LibraryBase(rootcls) = "Configable") =>
        \A j \in 1..Len(log) : FullyPrepared(log[j].heap, log[j].obj)

\* C1 witness: the callback of a (sorted first) has run on C while b, which
\* sorts after it, was already stored, and a itself was defaulted and cast.
C1_Witness ==
    /\ impl = "dict" /\ rootcls = "C" /\ result.status = "ok"
    /\ decl.kind = "int" /\ decl.default # None
    /\ input = Dict([b |-> PyStr("2")])
    /\ Len(log) = 2
    /\ log[1].name = "a" /\ log[1].value = PyInt(1)
    /\ log[1].heap[1].items["b"] = PyStr("2")
    /\ log[2].name = "b" /\ log[2].heap[1].items["a"] = PyInt(1)

\* C2: dict style, root bind of a ConfigableMap or ConfigableArray: no
\* callback of an element runs before every entry of the collection holds a
\* fully prepared element, and the callbacks then run element by element in
\* the order in which the elements were prepared (their creation order).
C2_CollectionPreparedThenCommittedInOrder ==
    (impl = "dict" /\ LibraryBase(rootcls) # "Configable") =>
        /\ \A j \in 1..Len(log) :
              \A k \in DOMAIN log[j].heap[1].items :
                  /\ log[j].heap[1].items[k].t = "ref"
                  /\ FullyPrepared(log[j].heap, log[j].heap[1].items[k].r)
        /\ \A j, k \in 1..Len(log) : j < k => log[j].obj <= log[k].obj

\* C2 witness: a map of two dogs, iterated sparky first, has been bound and
\* the callbacks of both elements have run.
C2_Witness ==
    /\ impl = "dict" /\ rootcls = "DogMap" /\ result.status = "ok"
    /\ order[1] = "sparky"
    /\ DOMAIN heap[1].items = {"gracie", "sparky"}
    /\ heap[heap[1].items["sparky"].r].cls = "Husky"
    /\ Len(log) = 4
    /\ log[1].obj = heap[1].items["sparky"].r
    /\ log[4].obj = heap[1].items["gracie"].r

\* C3: dict style: when the owner's callback for a setting whose kind is a
\* Configable class runs with a value, every callback of the nested object
\* has already run (and so, by the same statement one level down, those of
\* its own nested objects), and each of them ran with parent() the owner
\* and the owner fully prepared.
C3_NestedCommittedBeforeOwnerCallback ==
    impl = "dict" =>
        \A j \in 1..Len(log) :
            LET owner == log[j].obj
                st == Lookup(log[j].heap[owner].cls, log[j].name)
                nested == log[j].value.r
            IN (IsConfigableKind(st.kind) /\ LibraryBase(st.kind) = "Configable"
                /\ log[j].value.t = "ref") =>
                  \A name \in SettingNames(log[j].heap[nested].cls) :
                      \E k \in 1..(j - 1) :
                          /\ log[k].obj = nested
                          /\ log[k].name = name
                          /\ log[k].heap[nested].parent = PyRef(owner)
                          /\ FullyPrepared(log[k].heap, owner)

\* C3 witness: a Clan whose chief is a Family with a dad and a mom: the
\* chief callback ran last, after those of the Family and of the dad.
C3_Witness ==
    /\ impl = "dict" /\ rootcls = "Clan" /\ result.status = "ok"
    /\ Len(log) = 8
    /\ log[8].name = "chief" /\ log[8].obj = 1
    /\ log[3].name = "dad" /\ log[3].obj = log[8].value.r
    /\ log[1].obj = log[3].value.r /\ log[1].heap[log[1].obj].parent = log[8].value

\* the class the claim's resolution reaches: from T, descend into the first
\* registered direct subclass whose own declared discriminator pairs all
\* equal fields present in the input, until none matches
DeclaredMatch(c, cfg) ==
    /\ Classes[c].subtype.t = "map"
    /\ \A name \in DOMAIN Classes[c].subtype.m :
          /\ name \in DOMAIN cfg.m
          /\ PyEq(Classes[c].subtype.m[name], cfg.m[name])

RECURSIVE MostSpecific(_, _)
MostSpecific(T, cfg) ==
    LET ms == SelectSeq(Subclasses(T), LAMBDA c : DeclaredMatch(c, cfg))
    IN IF Len(ms) = 0 THEN T ELSE MostSpecific(ms[1], cfg)

\* C4: descriptor style: T(input) returns an instance of the class reached
\* from T by descending into the first registered direct subclass whose
\* declared discriminator pairs all equal the input's fields, and of T
\* itself when no subclass matches.
C4_ResolvesMostSpecificSubtype ==
    (impl = "desc" /\ result.status = "ok") =>
        heap[result.value.r].cls = MostSpecific(rootcls, input)

\* the number of times the callback of a setting ran on an object
Calls(obj, name) ==
    Cardinality({j \in 1..Len(log) : log[j].obj = obj /\ log[j].name = name})

\* C5: both styles: when a root bind has returned (and the caller has made
\* no further call) every bound object has had the callback of each of its
\* settings invoked exactly once, also when the object is of a proper
\* subtype of the class requested.
C5_CallbacksExactlyOnce ==
    (result.status = "ok" /\ again = <<>>) =>
        \A obj \in 1..Len(heap) :
            LibraryBase(heap[obj].cls) = "Configable" =>
                \A name \in SettingNames(heap[obj].cls) :
                    Lookup(heap[obj].cls, name).init => Calls(obj, name) = 1

\* the required settings of a class that an input leaves out or gives null
RequiredMissing(cls, cfg) ==
    {name \in SettingNames(cls) :
        Lookup(cls, name).required /\ Get(cfg.m, name) = None}

\* a setting is reached before another one
Before(n1, n2) ==
    \E x, y \in 1..Len(NameOrder) : x < y /\ NameOrder[x] = n1 /\ NameOrder[y] = n2

C7_DefaultIsCast ==
    (impl = "desc" /\ rootcls = "C" /\ Done
     /\ ~decl.required /\ decl.default # None /\ decl.choices = None
     /\ decl.kind # "" /\ Cast(decl.kind, decl.default).t # "raise"
     /\ "a" \notin DOMAIN input.m) =>
        /\ result.status = "ok"
        /\ \E j \in 1..Len(log) :
              /\ log[j].name = "a"
              /\ PyEq(log[j].value, Cast(decl.kind, decl.default))
        /\ PyEq(DescGet(heap, 1, "a"), Cast(decl.kind, decl.default))

\* C8: descriptor style: a setting with choices that receives a non-null
\* input binds exactly when its value cast through kind is a member of
\* choices.
C8_ChoicesCheckedAfterCast ==
    (impl = "desc" /\ rootcls = "C" /\ Done
     /\ decl.choices # None /\ Get(input.m, "a") # None
     /\ Cast(decl.kind, Get(input.m, "a")).t # "raise") =>
        (result.status = "ok"
            <=> PyIn(Cast(decl.kind, Get(input.m, "a")), decl.choices))

\* C9: descriptor style: a subtype whose discriminator names a field the
\* input does not have is never selected, whatever value it expects there.
C9_AbsentFieldNeverMatches ==
    (impl = "desc" /\ result.status = "ok") =>
        \A c \in Range(Mro(heap[result.value.r].cls)) :
            (c # rootcls /\ IsSubclass(c, rootcls)
             /\ Classes[c].subtype.t = "map") =>
                DOMAIN Classes[c].subtype.m \subseteq DOMAIN input.m

\* string[0] for the strings of the model
FirstChar(str) == IF str = "S string!" THEN "S" ELSE "s"

\* the SUBTYPE predicate of SString applied to a raw value
Predicate(f, x) == f = "startsWithS" /\ x.t = "str" /\ FirstChar(x.s) = "S"

\* C10: descriptor style: a subtype whose SUBTYPE is a predicate over the
\* raw value is selected whenever the predicate is true of the raw value,
\* mappings or not.
C10_PredicateSubtypeSelected ==
    (impl = "desc" /\ Done) =>
        \A c \in Range(Subclasses(rootcls)) :
            (Classes[c].subtype.t = "func"
             /\ Predicate(Classes[c].subtype.f, input)) =>
                /\ result.status = "ok"
                /\ IsSubclass(heap[result.value.r].cls, c)

\* the subtype a subclass answers to when the discriminator is its own
\* SUBTYPE, or its lowercased name when its body defines none
OwnSubtype(c) ==
    IF Classes[c].subtype # NoAttr THEN Classes[c].subtype ELSE PyStr(Lower(c))

\* the class reached from T by descending, while the input has the class's
\* subtype property, into the first direct subclass that answers to the
\* value of that property
RECURSIVE DictMostSpecific(_, _)
DictMostSpecific(T, cfg) ==
    LET prop == GetAttr(T, "subprop", None)
        ms == IF prop = None \/ prop.s \notin DOMAIN cfg.m THEN <<>>
              ELSE SelectSeq(Subclasses(T),
                             LAMBDA c : PyEq(OwnSubtype(c), cfg.m[prop.s]))
    IN IF Len(ms) = 0 THEN T ELSE DictMostSpecific(ms[1], cfg)

\* the raw entries of a collection input, by key or by index
RawEntries(x) == IF x.t = "map" THEN x.m ELSE x.l

\* C11: dict style: a successful root bind of a map or sequence collection
\* returns a collection with exactly the input's keys (or indices); each
\* entry is the object bound from that entry's raw value, of the most
\* specific matching subtype of TYPE, and each callback of each element has
\* run exactly once.
C11_CollectionBindsEveryEntry ==
    (impl = "dict" /\ LibraryBase(rootcls) # "Configable"
     /\ result.status = "ok") =>
        LET coll == heap[result.value.r]
            raw == RawEntries(input)
        IN /\ DOMAIN coll.items = DOMAIN raw
           /\ \A k \in DOMAIN raw :
                 /\ coll.items[k].t = "ref"
                 /\ LET elem == coll.items[k].r
                    IN /\ heap[elem].cls =
                              DictMostSpecific(GetAttr(rootcls, "type", NoAttr).s, raw[k])
                       /\ \A f \in DOMAIN raw[k].m :
                              /\ f \in DOMAIN heap[elem].items
                              /\ heap[elem].items[f] = raw[k].m[f]
                       /\ \A name \in SettingNames(heap[elem].cls) :
                              Calls(elem, name) = 1

\* C12: dict style: _handle_settings invoked on an object that has already
\* been committed fails with an already-committed error and runs no setting
\* callback a second time.
C12_SecondCommitFails ==
    \A j \in 1..Len(again) :
        /\ Len(log) = again[j].at
        /\ again[j].status # "running" =>
              again[j].status = "error" /\ again[j].exc = "AlreadyCommitted"

\* the settings of a class in the order of their declaration: those of the
\* ancestors first, then the ones the class body adds
RECURSIVE Declared(_)
Declared(cls) ==
    IF cls \in Builtins THEN <<>>
    ELSE Declared(Classes[cls].base) \o
         SelectSeq([j \in 1..Len(Classes[cls].settings) |-> Classes[cls].settings[j].name],
                   LAMBDA n : n \notin Range(Declared(Classes[cls].base)))

\* the first invocation of the callback of a setting on an object (0: none)
FirstCall(obj, name) ==
    IF Calls(obj, name) = 0 THEN 0
    ELSE CHOOSE j \in 1..Len(log) :
            /\ log[j].obj = obj /\ log[j].name = name
            /\ \A k \in 1..(j - 1) : ~(log[k].obj = obj /\ log[k].name = name)

\* C13: both styles: the callbacks of one bound object run in the order in
\* which its settings were declared: of two settings whose callbacks have
\* run, the one declared first ran first.
C13_CallbacksInDeclarationOrder ==
    \A obj \in 1..Len(heap) :
        LibraryBase(heap[obj].cls) = "Configable" =>
            LET ds == Declared(heap[obj].cls)
            IN \A x, y \in 1..Len(ds) :
                  (x < y /\ Calls(obj, ds[x]) > 0 /\ Calls(obj, ds[y]) > 0) =>
                      FirstCall(obj, ds[x]) < FirstCall(obj, ds[y])

\* C14: descriptor style: when the callback of a setting runs during the
\* construction of an object, every other setting of the object has already
\* been prepared, so the callback reads, for each setting of the object, the
\* prepared value that the finished object holds for it, whatever the order
\* of the two settings.
C14_DescSiblingsPreparedBeforeCallback ==
    (impl = "desc" /\ result.status = "ok") =>
        \A j \in 1..Len(log) :
            \A b \in SettingNames(heap[log[j].obj].cls) :
                 /\ b \in DOMAIN log[j].heap[log[j].obj].items
                 /\ DescGet(log[j].heap, log[j].obj, b) = DescGet(heap, log[j].obj, b)

\* C15: dict style: in subtype resolution a subclass whose body defines no
\* SUBTYPE answers to its own lowercased name, at every depth: the object a
\* root bind returns is of the class reached by descending on those terms.
C15_SubtypeDefaultsToLowercasedName ==
    (impl = "dict" /\ LibraryBase(rootcls) = "Configable"
     /\ input.t = "map" /\ result.status = "ok") =>
        heap[result.value.r].cls = DictMostSpecific(rootcls, input)

\* C16: dict style: binding a raw value that is no mapping (null, a scalar,
\* a sequence, the empty sequence included) as an object fails with a type
\* error and returns no object.
C16_NonMappingRejected ==
    (impl = "dict" /\ LibraryBase(rootcls) = "Configable"
     /\ input.t # "map" /\ Done) =>
        /\ result.status = "error"
        /\ result.exc \in {"TypeError", "ValueError"}
        /\ result.why \in {"not a mapping", "not iterable", "bad index"}
        /\ result.value = None

\* the callbacks the root bind itself ran: the log up to the caller's first
\* later call of _handle_settings
BindLog == IF again = <<>> THEN Len(log) ELSE again[1].at

\* the settings of an object, at a logged callback, that hold a nested
\* Configable
NestedSettings(j) ==
    LET owner == log[j].heap[log[j].obj]
    IN {b \in SettingNames(owner.cls) :
           /\ IsConfigableKind(Lookup(owner.cls, b).kind)
           /\ LibraryBase(Lookup(owner.cls, b).kind) = "Configable"
           /\ b \in DOMAIN owner.items
           /\ owner.items[b].t = "ref"}

\* every callback of the nested object held by setting b had run before the
\* logged callback j
CommittedBefore(j, b) ==
    LET nested == log[j].heap[log[j].obj].items[b].r
    IN \A name \in SettingNames(log[j].heap[nested].cls) :
           \E k \in 1..(j - 1) : log[k].obj = nested /\ log[k].name = name

\* C17 as stated: dict style: whenever a callback of an object runs, every
\* nested Configable held by any setting of that object has been committed.
C17_AllNestedCommittedBeforeAnyCallback ==
    impl = "dict" =>
        \A j \in 1..Len(log) : \A b \in NestedSettings(j) : CommittedBefore(j, b)

\* C17 (amended): dict style: when the callback of setting a runs during the
\* bind, every nested Configable the object holds is fully prepared, and the
\* one held by setting b has been committed exactly when b is a or comes
\* before a in the order of the callbacks; those of later settings have not.
C17_NestedCommittedWithItsOwnSetting ==
    impl = "dict" =>
        \A j \in 1..BindLog : \A b \in NestedSettings(j) :
            /\ FullyPrepared(log[j].heap, log[j].heap[log[j].obj].items[b].r)
            /\ (CommittedBefore(j, b) <=> ~Before(log[j].name, b))

\* C17 witness: the dad callback of a Family ran, after the callbacks of the
\* dad, while the mom was prepared and none of her callbacks had run.
C17_Witness ==
    /\ impl = "dict" /\ rootcls = "Family"
    /\ Len(log) = 3
    /\ log[3].obj = 1 /\ log[3].name = "dad"
    /\ log[1].obj = log[3].value.r /\ log[2].obj = log[3].value.r
    /\ "mom" \in NestedSettings(3)
    /\ FullyPrepared(log[3].heap, log[3].heap[1].items["mom"].r)
    /\ ~CommittedBefore(3, "mom")

\* C18: descriptor style: a non-required setting with choices that the input
\* leaves out, or gives as null, is not rejected by the choices check: the
\* bind succeeds, with or without a default.
C18_AbsentSettingPassesChoices ==
    (impl = "desc" /\ rootcls = "C" /\ Done /\ input.t = "map"
     /\ ~decl.required /\ decl.choices # None
     /\ Get(input.m, "a") = None) =>
        result.status = "ok"

\* the settings of a class whose kind is a Configable class
ConfigableSettings(cls) ==
    {b \in SettingNames(cls) :
        /\ IsConfigableKind(Lookup(cls, b).kind)
        /\ LibraryBase(Lookup(cls, b).kind) = "Configable"}

\* C19: dict style: a bind whose input leaves out the non-required,
\* default-less settings of Configable kind of the object (and no required
\* setting) succeeds: each such field is null and its callback has been
\* invoked with null.
C19_AbsentNestedSettingBindsNull ==
    (impl = "dict" /\ LibraryBase(rootcls) = "Configable" /\ input.t = "map"
     /\ Done /\ ConfigableSettings(rootcls) # {}
     /\ RequiredMissing(rootcls, input) = {}
     /\ \A b \in ConfigableSettings(rootcls) :
           /\ b \notin DOMAIN input.m
           /\ ~Lookup(rootcls, b).required
           /\ Lookup(rootcls, b).default = None) =>
        /\ result.status = "ok"
        /\ \A b \in ConfigableSettings(rootcls) :
              /\ Get(heap[result.value.r].items, b) = None
              /\ \E j \in 1..Len(log) :
                    /\ log[j].obj = result.value.r
                    /\ log[j].name = b
                    /\ log[j].value = None

\* C20: dict style: when a root bind of an object or of a collection fails
\* with a missing-required or a cast error anywhere in the tree it binds, no
\* setting callback of any object of the tree has been invoked.
C20_NoCallbackBeforePrepareFailure ==
    (impl = "dict" /\ result.status = "error"
     /\ result.why \in {"required", "cast"}) =>
        log = <<>>

\* the settings of a class whose kind is a ConfigableMap or ConfigableArray
\* class
CollectionSettings(cls) ==
    {b \in SettingNames(cls) :
        /\ IsConfigableKind(Lookup(cls, b).kind)
        /\ LibraryBase(Lookup(cls, b).kind) # "Configable"}

\* C21: dict style: a root bind of an object that has a setting whose kind is
\* a collection class, given a collection of valid entries for it, succeeds;
\* every element of the nested collection was prepared before any callback
\* ran, and all callbacks of every element ran before the owner's callback
\* for that setting.
C21_NestedCollectionCommittedBeforeOwnerCallback ==
    (impl = "dict" /\ LibraryBase(rootcls) = "Configable" /\ input.t = "map"
     /\ Done /\ RequiredMissing(rootcls, input) = {}
     /\ CollectionSettings(rootcls) # {}
     /\ \A b \in CollectionSettings(rootcls) :
           /\ b \in DOMAIN input.m
           /\ input.m[b].t = "map"
           /\ \A k \in DOMAIN input.m[b].m :
                 RequiredMissing(Lookup(rootcls, b).kind, input.m[b].m[k]) = {}) =>
        /\ result.status = "ok"
        /\ \A b \in CollectionSettings(rootcls) :
              LET coll == heap[heap[result.value.r].items[b].r]
              IN \E j \in 1..Len(log) :
                    /\ log[j].obj = result.value.r /\ log[j].name = b
                    /\ \A k \in DOMAIN coll.items :
                          /\ FullyPrepared(log[1].heap, coll.items[k].r)
                          /\ \A name \in SettingNames(heap[coll.items[k].r].cls) :
                                \E i \in 1..(j - 1) :
                                    log[i].obj = coll.items[k].r /\ log[i].name = name

\* C22: dict style: during its own callbacks an object bound as an element
\* of a collection has the collection as its parent, and no object other
\* than the root has a null parent.
C22_ElementParentIsCollection ==
    impl = "dict" =>
        \A j \in 1..Len(log) :
            log[j].obj # 1 =>
                /\ log[j].heap[log[j].obj].parent # None
                /\ LibraryBase(rootcls) # "Configable" =>
                      log[j].heap[log[j].obj].parent = PyRef(1)

C24_UndeclaredSubclassNeverSelected ==
    (impl = "desc" /\ result.status = "ok") =>
        LET cls == heap[result.value.r].cls
        IN \/ cls = rootcls
           \/ /\ Classes[cls].subtype.t = "map"
              /\ \A name \in DOMAIN Classes[cls].subtype.m :
                    PyEq(Classes[cls].subtype.m[name], Get(input.m, name))

====
